---------------------------- MODULE Spec2Model ----------------------------
(***************************************************************************)
(* Model of the interactive job dispatcher of Transcode-no-Jutsu           *)
(* (src/src/main.rs): the SQS poller task, the shared AppState registry    *)
(* behind Arc<Mutex<..>>, the foreground run_app loop and the detached     *)
(* run_and_delete launch tasks; and of the transcoding worker the launched  *)
(* container runs (src/container/src/main.rs).                             *)
(***************************************************************************)
EXTENDS Integers, Sequences, FiniteSets, Bags, TLC

(* ------------------------------ bounds -------------------------------- *)

\* Number of push_message calls in a run of the registry on its own.
MaxPushes == 3

\* Largest number of chunks the body stream of the source object yields.
MaxChunks == 2

\* Total number of queue messages delivered over a run.
MaxMsgs == 2

\* Total number of well-formed records delivered over a run.
MaxRecs == 2

(* ------------------------------ values -------------------------------- *)

\* The receipt handle SQS attaches to the n-th delivered message: non-empty
\* and different for every delivery.
ReceiptHandle(n) ==
    CASE n = 1 -> "rh1" [] n = 2 -> "rh2" [] n = 3 -> "rh3" [] OTHER -> "rh4"

\* Absent optional values (Option::None) of msg.body().
NoBody == [kind |-> "none", records |-> <<>>]

\* A body that is not JSON, such as "{not json".
NotJson == [kind |-> "notjson", records |-> <<>>]

\* One record of a notification: the nested s3.bucket.name / s3.object.key
\* object, or a record whose object lacks the required key field.
GoodRecord(b, k) == [s3 |-> [bucket |-> [name |-> b], object |-> [key |-> k]]]

BadRecord(b) == [s3 |-> [bucket |-> [name |-> b], object |-> [size |-> "1"]]]

\* A JSON body of n well-formed records with alternating keys, and one whose
\* n records all name the same object.
AltBody(n) ==
    [kind |-> "json",
     records |-> [i \in 1..n |->
                    GoodRecord("b", IF i % 2 = 1 THEN "movie.mp4" ELSE "clip.mp4")]]

SameBody(n) ==
    [kind |-> "json", records |-> [i \in 1..n |-> GoodRecord("b", "movie.mp4")]]

\* A JSON body whose second record does not match the schema.
BadSchema ==
    [kind |-> "json", records |-> <<GoodRecord("b", "movie.mp4"), BadRecord("b")>>]

\* The bodies a message can carry when at most r more records may be decoded.
Bodies(r) ==
    {NoBody, NotJson, BadSchema} \cup {AltBody(n) : n \in 0..r}
        \cup {SameBody(n) : n \in 2..r}

\* serde_json::from_str::<S3Event>(body): Ok(event) when the body is JSON and
\* every record has the required fields, Err otherwise.
RecordOk(r) ==
    /\ "s3" \in DOMAIN r
    /\ "bucket" \in DOMAIN r.s3 /\ "name" \in DOMAIN r.s3.bucket
    /\ "object" \in DOMAIN r.s3 /\ "key" \in DOMAIN r.s3.object

DecodeOk(body) ==
    /\ body.kind = "json"
    /\ \A i \in 1..Len(body.records) : RecordOk(body.records[i])

\* event.records of a body that decodes.
DecodeRecords(body) == body.records

\* VideoMessage { bucket, key, receipt_handle }
VideoMessage(b, k, rh) == [bucket |-> b, key |-> k, receipt_handle |-> rh]

\* Variant of JobOfRecord with the bucket and the key swapped.
JobOfRecord_Swapped(rec, receipt) ==
    VideoMessage(rec.s3.object.key, rec.s3.bucket.name, receipt)

\* The VideoMessage the poller builds from one record and the message's receipt.
JobOfRecord(rec, receipt) ==
    VideoMessage(rec.s3.bucket.name, rec.s3.object.key, receipt)

\* SOURCE_KEY is not set in the worker's environment.
NoEnv == <<>>

\* Object keys as the sequence of their "/"-separated components, the last
\* one split at its last dot: "movie.mp4" and "uploads/clip.mov".
SourceKeys ==
    {<<[stem |-> "movie", ext |-> "mp4"]>>,
     <<[stem |-> "uploads", ext |-> ""], [stem |-> "clip", ext |-> "mov"]>>}

\* Path::new(&source_key).file_stem(): the last component without its extension.
file_stem(key) == key[Len(key)].stem

\* The (name, scale, bitrate) profiles of the worker.
resolutions ==
    <<[name |-> "480p", scale |-> "scale=854:480", bitrate |-> "1000k"],
      [name |-> "720p", scale |-> "scale=1280:720", bitrate |-> "2500k"],
      [name |-> "1080p", scale |-> "scale=1920:1080", bitrate |-> "5000k"]>>

\* "/tmp/input.mp4"
input_path == <<"/tmp/input", ".mp4">>

\* format!("/tmp/output_{}.mp4", name)
output_path(name) == <<"/tmp/output_", name, ".mp4">>

\* format!("{}/{}.mp4", file_stem, name)
dest_key(key, name) == <<file_stem(key), "/", name, ".mp4">>

(* ------------------------------- state -------------------------------- *)

VARIABLES
    messages,     \* AppState.messages
    selected,     \* AppState.selected
    lock,         \* holder of the Mutex around AppState: "free", "poller", "fg"
    pollerPc,     \* position of the poller task
    batch,        \* messages of the received batch not yet processed
    recs,         \* records of the current event not yet processed
    receipt,      \* receipt handle of the message being processed
    pollerLog,    \* the line the poller's last step wrote to stderr, if any
    delivered,    \* number of messages delivered so far
    fgPc,         \* position of the foreground loop in run_app
    snapshot,     \* (items_snapshot, selected_index) of the current tick
    maybe_job,    \* result of remove_selected in the Enter handler
    tasks,        \* bag of the spawned run_and_delete tasks
    shutdown,     \* main has returned and the runtime is being dropped
    pushed,       \* history: the jobs given to push_message, in call order
    removed,      \* history: bag of jobs returned by remove_selected
    decoded,      \* history: per delivered message, its decode result
    workerPc,     \* position of the worker's main ("off": no worker modelled)
    source_key,   \* the worker's SOURCE_KEY environment variable
    resolution,   \* index of the current element of resolutions
    tmp,          \* the worker's files that exist under /tmp
    written,      \* chunks written to the input file by download_from_s3
    dest,         \* keys put into DEST_BUCKET
    exit          \* how the worker's main ended: "running", "Ok", "Err", "panic"

vars ==
    <<messages, selected, lock, pollerPc, batch, recs, receipt, pollerLog,
      delivered, fgPc, snapshot, maybe_job, tasks, shutdown, pushed, removed,
      decoded>>

registry == <<messages, selected>>

pollerVars == <<pollerPc, batch, recs, receipt, pollerLog, delivered, decoded>>

fgVars == <<fgPc, snapshot, maybe_job>>

history == <<pushed, removed>>

workerVars == <<workerPc, source_key, resolution, tmp, written, dest, exit>>

NoSnapshot == [taken |-> FALSE, items |-> <<>>, index |-> 0]

(* ----------------------------- AppState ------------------------------- *)

Min(a, b) == IF a <= b THEN a ELSE b

\* Variant of RemoveAt with an off-by-one in the tail: two elements go.
RemoveAt_OffByOne(s, i) == SubSeq(s, 1, i) \o SubSeq(s, i + 3, Len(s))

\* Vec::remove(i) with a 0-based index.
RemoveAt(s, i) == SubSeq(s, 1, i) \o SubSeq(s, i + 2, Len(s))

\* AppState::push_message
push_message(ms, sel, m) ==
    LET ms2 == Append(ms, m)
    IN  [messages |-> ms2, selected |-> IF Len(ms2) = 1 THEN 0 ELSE sel]

\* Variant of remove_selected that truncates the list at the cursor instead of
\* removing one element.
remove_selected_Truncates(ms, sel) ==
    IF Len(ms) = 0
    THEN [messages |-> ms, selected |-> sel, ret |-> <<>>]
    ELSE LET s2 == IF sel >= Len(ms) THEN Len(ms) - 1 ELSE sel
         IN  [messages |-> SubSeq(ms, 1, s2), selected |-> s2, ret |-> <<ms[s2 + 1]>>]

\* Variant of remove_selected that takes the oldest job instead of the one at
\* the cursor.
remove_selected_Oldest(ms, sel) ==
    IF Len(ms) = 0
    THEN [messages |-> ms, selected |-> sel, ret |-> <<>>]
    ELSE LET s2 == IF sel >= Len(ms) THEN Len(ms) - 1 ELSE sel
         IN  [messages |-> RemoveAt(ms, 0), selected |-> s2, ret |-> <<ms[1]>>]

\* Variant of remove_selected that returns a copy of the job at the cursor and
\* leaves it in the list (the job would be taken out once its launch is over).
remove_selected_Peek(ms, sel) ==
    IF Len(ms) = 0
    THEN [messages |-> ms, selected |-> sel, ret |-> <<>>]
    ELSE LET s2 == IF sel >= Len(ms) THEN Len(ms) - 1 ELSE sel
         IN  [messages |-> ms, selected |-> s2, ret |-> <<ms[s2 + 1]>>]

\* AppState::remove_selected: the cursor is clamped before the removal and
\* left as it is after it.
remove_selected(ms, sel) ==
    IF Len(ms) = 0
    THEN [messages |-> ms, selected |-> sel, ret |-> <<>>]
    ELSE LET s2 == IF sel >= Len(ms) THEN Len(ms) - 1 ELSE sel
         IN  [messages |-> RemoveAt(ms, s2), selected |-> s2, ret |-> <<ms[s2 + 1]>>]

\* AppState::next
next(ms, sel) == IF Len(ms) # 0 THEN Min(sel + 1, Len(ms) - 1) ELSE sel

\* AppState::previous
previous(ms, sel) ==
    IF Len(ms) # 0 THEN (IF sel = 0 THEN 0 ELSE sel - 1) ELSE sel

(* ------------------------------- Init --------------------------------- *)

\* max_number_of_messages(10) of the poller's receive_message request.
MaxNumberOfMessages == 10

\* State after AppState::new(), the spawn of the poller and the entry into
\* run_app.
Init ==
    /\ messages = <<>>
    /\ selected = 0
    /\ lock = "free"
    /\ pollerPc = "receive"
    /\ batch = <<>>
    /\ recs = <<>>
    /\ receipt = ""
    /\ pollerLog = "none"
    /\ delivered = 0
    /\ fgPc = "tick"
    /\ snapshot = NoSnapshot
    /\ maybe_job = <<>>
    /\ tasks = EmptyBag
    /\ shutdown = FALSE
    /\ pushed = <<>>
    /\ removed = EmptyBag
    /\ decoded = <<>>
    /\ workerPc = "off"
    /\ source_key = NoEnv
    /\ resolution = 1
    /\ tmp = {}
    /\ written = 0
    /\ dest = {}
    /\ exit = "running"

(* ------------------------------ poller -------------------------------- *)

\* Number of records a body contributes when it decodes.
RecordsIn(body) == IF DecodeOk(body) THEN Len(body.records) ELSE 0

RECURSIVE SumRecords(_)
SumRecords(bs) == IF bs = <<>> THEN 0 ELSE RecordsIn(Head(bs)) + SumRecords(Tail(bs))

RECURSIVE SumDecoded(_)
SumDecoded(ds) ==
    IF ds = <<>> THEN 0 ELSE Len(Head(ds).records) + SumDecoded(Tail(ds))

\* receive_message().send().await returns Ok(output) with n messages.
PollerReceive ==
    /\ pollerPc = "receive"
    /\ ~shutdown
    /\ LET budget == MaxRecs - SumDecoded(decoded)
       IN  \E n \in 0..Min(MaxNumberOfMessages, MaxMsgs - delivered) :
             \E bs \in [1..n -> Bodies(budget)] :
                /\ SumRecords(bs) <= budget
                /\ batch' = [i \in 1..n |->
                               [body |-> bs[i],
                                receipt_handle |-> ReceiptHandle(delivered + i)]]
                /\ delivered' = delivered + n
    /\ pollerPc' = "for_msg"
    /\ pollerLog' = "none"
    /\ UNCHANGED <<registry, lock, recs, receipt, decoded, fgVars, tasks, shutdown,
                   history>>
    /\ UNCHANGED workerVars

\* Variant of PollerReceiveErr that leaves the poll loop on a receive error.
PollerReceiveErr_Exits ==
    /\ pollerPc = "receive"
    /\ ~shutdown
    /\ pollerLog' = "receive_error"
    /\ pollerPc' = "stopped"
    /\ UNCHANGED <<registry, lock, batch, recs, receipt, delivered, decoded, fgVars,
                   tasks, shutdown, history>>
    /\ UNCHANGED workerVars

\* receive_message().send().await returns Err(e): logged, then the sleep.
PollerReceiveErr ==
    /\ pollerPc = "receive"
    /\ ~shutdown
    /\ pollerLog' = "receive_error"
    /\ pollerPc' = "sleep"
    /\ UNCHANGED <<registry, lock, batch, recs, receipt, delivered, decoded, fgVars,
                   tasks, shutdown, history>>
    /\ UNCHANGED workerVars

\* The entry of the decode history for one processed message: whether its body
\* decoded, and event.records if it did.
Decoded(msg, ok, rs) ==
    [receipt_handle |-> msg.receipt_handle, ok |-> ok, records |-> rs]

\* The body of `for msg in messages` when msg.body() is None: nothing is done.
SkipMsg(msg) ==
    /\ pollerLog' = "none"
    /\ decoded' = Append(decoded, Decoded(msg, FALSE, <<>>))
    /\ UNCHANGED <<recs, receipt, pollerPc>>

\* Variant of ParseError that leaves the loop over the batch after the error.
ParseError_Aborts(msg) ==
    /\ pollerLog' = "parse_error"
    /\ decoded' = Append(decoded, [receipt_handle |-> msg.receipt_handle, ok |-> FALSE,
                                   records |-> <<>>])
    /\ pollerPc' = "sleep"
    /\ UNCHANGED <<recs, receipt>>

\* The Err(e) arm of the decode: the error and the body are logged.
ParseError(msg) ==
    /\ pollerLog' = "parse_error"
    /\ decoded' = Append(decoded, Decoded(msg, FALSE, <<>>))
    /\ UNCHANGED <<recs, receipt, pollerPc>>

\* The Ok(event) arm of the decode: the record loop starts on event.records
\* with the message's receipt handle.
ParseOk(msg) ==
    /\ recs' = DecodeRecords(msg.body)
    /\ receipt' = IF DecodeRecords(msg.body) = <<>> THEN "" ELSE msg.receipt_handle
    /\ decoded' = Append(decoded, Decoded(msg, TRUE, DecodeRecords(msg.body)))
    /\ pollerPc' = IF DecodeRecords(msg.body) = <<>> THEN "for_msg" ELSE "for_rec"
    /\ pollerLog' = "none"

\* One iteration of `for msg in messages` up to the record loop: the body and
\* receipt are read and the body is decoded.
PollerMsg ==
    /\ pollerPc = "for_msg"
    /\ batch # <<>>
    /\ batch' = Tail(batch)
    /\ IF Head(batch).body = NoBody THEN SkipMsg(Head(batch))
       ELSE IF ~DecodeOk(Head(batch).body) THEN ParseError(Head(batch))
       ELSE ParseOk(Head(batch))
    /\ UNCHANGED <<registry, lock, delivered, fgVars, tasks, shutdown, history>>
    /\ UNCHANGED workerVars

\* The batch is exhausted: the poller goes to sleep(5 s).
PollerBatchDone ==
    /\ pollerPc = "for_msg"
    /\ batch = <<>>
    /\ pollerPc' = "sleep"
    /\ pollerLog' = "none"
    /\ UNCHANGED <<registry, lock, batch, recs, receipt, delivered, decoded, fgVars,
                   tasks, shutdown, history>>
    /\ UNCHANGED workerVars

\* Variant of PollerLock that does not wait for the mutex to be free.
PollerLock_NoWait ==
    /\ pollerPc = "for_rec"
    /\ lock' = "poller"
    /\ pollerPc' = "locked"
    /\ pollerLog' = "none"
    /\ UNCHANGED <<registry, batch, recs, receipt, delivered, decoded, fgVars, tasks,
                   shutdown, history>>
    /\ UNCHANGED workerVars

\* state_for_poller.lock() for the next record: blocks until the mutex is
\* free. (No holder of the mutex can panic, so lock() never returns Err.)
PollerLock ==
    /\ pollerPc = "for_rec"
    /\ lock = "free"
    /\ lock' = "poller"
    /\ pollerPc' = "locked"
    /\ pollerLog' = "none"
    /\ UNCHANGED <<registry, batch, recs, receipt, delivered, decoded, fgVars, tasks,
                   shutdown, history>>
    /\ UNCHANGED workerVars

\* Variant of PollerPush that also starts the launch of the job it pushed
\* (the automatic mode of the dispatcher).
PollerPush_AutoLaunch ==
    /\ pollerPc = "locked"
    /\ LET v == JobOfRecord(Head(recs), receipt)
           r == push_message(messages, selected, v)
       IN  /\ messages' = r.messages
           /\ selected' = r.selected
           /\ pushed' = Append(pushed, v)
           /\ tasks' = tasks (+) SetToBag({[job |-> v, pc |-> "run_task",
                                            launches |-> 1, started |-> FALSE,
                                            ack |-> <<>>, deleted |-> "none",
                                            ret |-> "none"]})
    /\ pollerLog' = "added"
    /\ lock' = "free"
    /\ recs' = Tail(recs)
    /\ receipt' = IF Tail(recs) = <<>> THEN "" ELSE receipt
    /\ pollerPc' = IF Tail(recs) = <<>> THEN "for_msg" ELSE "for_rec"
    /\ UNCHANGED <<batch, delivered, decoded, fgVars, shutdown, removed>>
    /\ UNCHANGED workerVars

\* st.push_message(v.clone()), the log line, and the drop of the guard; after
\* the last record the loop over the messages goes on.
PollerPush ==
    /\ pollerPc = "locked"
    /\ LET v == JobOfRecord(Head(recs), receipt)
           r == push_message(messages, selected, v)
       IN  /\ messages' = r.messages
           /\ selected' = r.selected
           /\ pushed' = Append(pushed, v)
    /\ pollerLog' = "added"
    /\ lock' = "free"
    /\ recs' = Tail(recs)
    /\ receipt' = IF Tail(recs) = <<>> THEN "" ELSE receipt
    /\ pollerPc' = IF Tail(recs) = <<>> THEN "for_msg" ELSE "for_rec"
    /\ UNCHANGED <<batch, delivered, decoded, fgVars, tasks, shutdown, removed>>
    /\ UNCHANGED workerVars

\* sleep(5 s) ends and the loop starts over.
PollerSleep ==
    /\ pollerPc = "sleep"
    /\ ~shutdown
    /\ pollerPc' = "receive"
    /\ pollerLog' = "none"
    /\ UNCHANGED <<registry, lock, batch, recs, receipt, delivered, decoded, fgVars,
                   tasks, shutdown, history>>
    /\ UNCHANGED workerVars

Poller ==
    \/ PollerReceive
    \/ PollerReceiveErr
    \/ PollerMsg
    \/ PollerBatchDone
    \/ PollerLock
    \/ PollerPush
    \/ PollerSleep

(* --------------------------- foreground loop -------------------------- *)

KeyEvents == {"none", "q", "Down", "Up", "Enter", "other"}

\* state.lock().unwrap() at the top of the tick ("tick" is the end of the
\* previous iteration, sleep(20 ms) included).
FgLockSnapshot ==
    /\ fgPc = "tick"
    /\ lock = "free"
    /\ lock' = "fg"
    /\ fgPc' = "snapshot"
    /\ UNCHANGED <<registry, pollerVars, snapshot, maybe_job, tasks, shutdown, history>>
    /\ UNCHANGED workerVars

\* (st.messages.clone(), st.selected), then the guard is dropped.
FgSnapshot ==
    /\ fgPc = "snapshot"
    /\ snapshot' = [taken |-> TRUE, items |-> messages, index |-> selected]
    /\ lock' = "free"
    /\ fgPc' = "poll"
    /\ UNCHANGED <<registry, pollerVars, maybe_job, tasks, shutdown, history>>
    /\ UNCHANGED workerVars

\* terminal.draw of the snapshot, yield_now, event::poll(150 ms) and
\* event::read: the key decides the branch of the match. The snapshot is not
\* read again after the draw; it is kept on the Enter path as the record of
\* what the operator saw when pressing the key.
FgEvent ==
    /\ fgPc = "poll"
    /\ \E key \in KeyEvents \ {"q"} :
         /\ fgPc' = CASE key = "Down"  -> "down"
                      [] key = "Up"    -> "up"
                      [] key = "Enter" -> "enter"
                      [] OTHER         -> "tick"
         /\ snapshot' = IF key = "Enter" THEN snapshot ELSE NoSnapshot
    /\ UNCHANGED <<registry, lock, pollerVars, maybe_job, tasks, shutdown, history>>
    /\ UNCHANGED workerVars

\* KeyCode::Char('q') => break (an error of draw, poll or read leaves the loop
\* the same way): run_app returns.
FgQuit ==
    /\ fgPc = "poll"
    /\ fgPc' = "exited"
    /\ snapshot' = NoSnapshot
    /\ UNCHANGED <<registry, lock, pollerVars, maybe_job, tasks, shutdown, history>>
    /\ UNCHANGED workerVars

\* state.lock().unwrap() of the Down, Up and Enter handlers.
FgLockKey ==
    /\ fgPc \in {"down", "up", "enter"}
    /\ lock = "free"
    /\ lock' = "fg"
    /\ fgPc' = CASE fgPc = "down" -> "next_locked"
                 [] fgPc = "up"   -> "previous_locked"
                 [] OTHER         -> "remove_locked"
    /\ UNCHANGED <<registry, pollerVars, snapshot, maybe_job, tasks, shutdown, history>>
    /\ UNCHANGED workerVars

\* KeyCode::Down: st.next(), guard dropped at the end of the arm.
FgNext ==
    /\ fgPc = "next_locked"
    /\ selected' = next(messages, selected)
    /\ lock' = "free"
    /\ fgPc' = "tick"
    /\ UNCHANGED <<messages, pollerVars, snapshot, maybe_job, tasks, shutdown, history>>
    /\ UNCHANGED workerVars

\* KeyCode::Up: st.previous(), guard dropped at the end of the arm.
FgPrevious ==
    /\ fgPc = "previous_locked"
    /\ selected' = previous(messages, selected)
    /\ lock' = "free"
    /\ fgPc' = "tick"
    /\ UNCHANGED <<messages, pollerVars, snapshot, maybe_job, tasks, shutdown, history>>
    /\ UNCHANGED workerVars

\* KeyCode::Enter: maybe_job = st.remove_selected(), guard dropped at the end
\* of the block.
FgRemove ==
    /\ fgPc = "remove_locked"
    /\ LET r == remove_selected(messages, selected)
       IN  /\ messages' = r.messages
           /\ selected' = r.selected
           /\ maybe_job' = r.ret
           /\ removed' = IF r.ret = <<>> THEN removed
                         ELSE removed (+) SetToBag({r.ret[1]})
    /\ lock' = "free"
    /\ fgPc' = "spawn"
    /\ UNCHANGED <<pollerVars, snapshot, tasks, shutdown, pushed>>
    /\ UNCHANGED workerVars

\* A run_and_delete task right after tokio::spawn: the run_task request is
\* the first thing it awaits.
\* started: the backend accepted the submission; ack: the receipt handles the
\* task has passed to delete_message; deleted: what delete_message returned;
\* ret: the value run_and_delete returned; launches: the run_task requests the
\* task has sent (count(1), one request).
NewTask(job) ==
    [job |-> job, pc |-> "run_task", launches |-> 1, started |-> FALSE, ack |-> <<>>,
     deleted |-> "none", ret |-> "none"]

\* Variant of FgSpawn that spawns a task whether or not a job was returned
\* (maybe_job.unwrap_or_default()).
FgSpawn_Unchecked ==
    /\ fgPc = "spawn"
    /\ tasks' = tasks (+) SetToBag({NewTask(IF maybe_job = <<>>
                                            THEN VideoMessage("", "", "")
                                            ELSE maybe_job[1])})
    /\ maybe_job' = <<>>
    /\ snapshot' = NoSnapshot
    /\ fgPc' = "tick"
    /\ UNCHANGED <<registry, lock, pollerVars, shutdown, history>>
    /\ UNCHANGED workerVars

\* Variant of FgSpawn that awaits the launches in place of detaching them: the
\* handler goes on only when no run_and_delete is still running.
FgSpawn_Awaits ==
    /\ fgPc = "spawn"
    /\ \A t \in BagToSet(tasks) : t.pc = "done"
    /\ tasks' = IF maybe_job = <<>> THEN tasks
                ELSE tasks (+) SetToBag({NewTask(maybe_job[1])})
    /\ maybe_job' = <<>>
    /\ snapshot' = NoSnapshot
    /\ fgPc' = "tick"
    /\ UNCHANGED <<registry, lock, pollerVars, shutdown, history>>
    /\ UNCHANGED workerVars

\* if let Some(job) = maybe_job { tokio::spawn(run_and_delete(job, ..)) }
FgSpawn ==
    /\ fgPc = "spawn"
    /\ tasks' = IF maybe_job = <<>> THEN tasks
                ELSE tasks (+) SetToBag({NewTask(maybe_job[1])})
    /\ maybe_job' = <<>>
    /\ snapshot' = NoSnapshot
    /\ fgPc' = "tick"
    /\ UNCHANGED <<registry, lock, pollerVars, shutdown, history>>
    /\ UNCHANGED workerVars

\* main returns after run_app: the runtime is dropped and every task still at
\* an await point is never polled again.
MainReturn ==
    /\ fgPc = "exited"
    /\ ~shutdown
    /\ shutdown' = TRUE
    /\ UNCHANGED <<registry, lock, pollerVars, fgVars, tasks, history>>
    /\ UNCHANGED workerVars

Foreground ==
    \/ FgLockSnapshot
    \/ FgSnapshot
    \/ FgEvent
    \/ FgQuit
    \/ FgLockKey
    \/ FgNext
    \/ FgPrevious
    \/ FgRemove
    \/ FgSpawn
    \/ MainReturn

(* ------------------------- run_and_delete tasks ----------------------- *)

\* What run_task().send().await can return: Err(e), or Ok(out) with
\* out.tasks holding a started task, out.tasks present but empty, only
\* out.failures present, or neither.
RunTaskResponses == {"Err", "Started", "NoTask", "Failures", "Neither"}

\* Variant of AfterRunTask that passes the job's key to delete_message in
\* place of its receipt handle.
AfterRunTask_WrongToken(t, resp) ==
    IF resp = "Err"
    THEN [t EXCEPT !.pc = "done", !.ret = "Err"]
    ELSE IF t.job.receipt_handle # ""
         THEN [t EXCEPT !.pc = "delete_message", !.started = (resp = "Started"),
                        !.ack = <<t.job.key>>]
         ELSE [t EXCEPT !.pc = "done", !.ret = "Ok", !.started = (resp = "Started")]

\* Variant of AfterRunTask that sends the run_task request again after Err.
AfterRunTask_Retries(t, resp) ==
    IF resp = "Err"
    THEN [t EXCEPT !.launches = @ + 1]
    ELSE IF t.job.receipt_handle # ""
         THEN [t EXCEPT !.pc = "delete_message", !.started = (resp = "Started"),
                        !.ack = <<t.job.receipt_handle>>]
         ELSE [t EXCEPT !.pc = "done", !.ret = "Ok", !.started = (resp = "Started")]

\* The match on run_resp and what follows it up to the next await: Err
\* returns the error; every Ok(out) goes on to delete_message when the
\* receipt handle is not empty, and to Ok(()) otherwise.
AfterRunTask(t, resp) ==
    IF resp = "Err"
    THEN [t EXCEPT !.pc = "done", !.ret = "Err"]
    ELSE IF t.job.receipt_handle # ""
         THEN [t EXCEPT !.pc = "delete_message", !.started = (resp = "Started"),
                        !.ack = <<t.job.receipt_handle>>]
         ELSE [t EXCEPT !.pc = "done", !.ret = "Ok", !.started = (resp = "Started")]

\* Task t of the bag moves on and becomes t2.
Step(t, t2) == tasks' = (tasks (-) SetToBag({t})) (+) SetToBag({t2})

\* The run_task request of task t completes.
TaskRunTask(t) ==
    /\ t.pc = "run_task"
    /\ ~shutdown
    /\ \E resp \in RunTaskResponses : Step(t, AfterRunTask(t, resp))
    /\ UNCHANGED <<registry, lock, pollerVars, fgVars, shutdown, history>>
    /\ UNCHANGED workerVars

\* The delete_message request of task t completes, Ok or Err: both are only
\* logged and the task returns Ok(()).
TaskDeleteMessage(t) ==
    /\ t.pc = "delete_message"
    /\ ~shutdown
    /\ \E res \in {"Ok", "Err"} :
         Step(t, [t EXCEPT !.pc = "done", !.deleted = res, !.ret = "Ok"])
    /\ UNCHANGED <<registry, lock, pollerVars, fgVars, shutdown, history>>
    /\ UNCHANGED workerVars

Task ==
    \E t \in BagToSet(tasks) : TaskRunTask(t) \/ TaskDeleteMessage(t)

(* ------------------------- transcoding worker ------------------------- *)

\* The container has been started with SOURCE_KEY set to some key, or unset.
WorkerInit ==
    /\ messages = <<>>
    /\ selected = 0
    /\ lock = "free"
    /\ pollerPc = "receive"
    /\ batch = <<>>
    /\ recs = <<>>
    /\ receipt = ""
    /\ pollerLog = "none"
    /\ delivered = 0
    /\ fgPc = "tick"
    /\ snapshot = NoSnapshot
    /\ maybe_job = <<>>
    /\ tasks = EmptyBag
    /\ shutdown = FALSE
    /\ pushed = <<>>
    /\ removed = EmptyBag
    /\ decoded = <<>>
    /\ workerPc = "main"
    /\ source_key \in SourceKeys \cup {NoEnv}
    /\ resolution = 1
    /\ tmp = {}
    /\ written = 0
    /\ dest = {}
    /\ exit = "running"

\* main returns r (Ok, Err through a `?`, or a panic): nothing runs after it.
Exit(r) ==
    /\ workerPc' = "exited"
    /\ exit' = r

\* env::var("SOURCE_KEY").expect(..): panics when the variable is not set;
\* otherwise the clients are built and download_from_s3 is entered.
WorkerStart ==
    /\ workerPc = "main"
    /\ IF source_key = NoEnv THEN Exit("panic")
       ELSE workerPc' = "get_object" /\ exit' = exit
    /\ UNCHANGED <<vars, source_key, resolution, tmp, written, dest>>

\* download_from_s3: get_object().send().await? and File::create(destination)?
\* Either can fail, and then no file has been created.
DownloadGetObject ==
    /\ workerPc = "get_object"
    /\ \/ /\ tmp' = tmp \cup {input_path}
          /\ workerPc' = "try_next"
          /\ exit' = exit
       \/ /\ Exit("Err")
          /\ tmp' = tmp
    /\ UNCHANGED <<vars, source_key, resolution, written, dest>>

\* download_from_s3: one round of `while let Some(bytes) = try_next().await?`
\* with file.write_all(&bytes)?: a chunk is written, or the stream or the
\* write fails and main returns the error.
DownloadChunk ==
    /\ workerPc = "try_next"
    /\ written < MaxChunks
    /\ \/ /\ written' = written + 1
          /\ UNCHANGED <<workerPc, exit>>
       \/ /\ Exit("Err")
          /\ written' = written
    /\ UNCHANGED <<vars, source_key, resolution, tmp, dest>>

\* download_from_s3: try_next returns None, the size is printed and the loop
\* over the resolutions starts.
DownloadDone ==
    /\ workerPc = "try_next"
    /\ workerPc' = "transcode"
    /\ resolution' = 1
    /\ UNCHANGED <<vars, source_key, tmp, written, dest, exit>>

\* What one run of ffmpeg can do: it cannot be started, it fails before or
\* after it has created the output file, or it succeeds.
FfmpegOutcomes == {"spawn_err", "failed_no_output", "failed_partial", "success"}

\* transcode_video(input_path, &output_path, scale, bitrate)?
Transcode ==
    /\ workerPc = "transcode"
    /\ \E o \in FfmpegOutcomes :
         /\ tmp' = IF o \in {"failed_partial", "success"}
                   THEN tmp \cup {output_path(resolutions[resolution].name)}
                   ELSE tmp
         /\ IF o = "success" THEN workerPc' = "upload" /\ exit' = exit
            ELSE Exit("Err")
    /\ UNCHANGED <<vars, source_key, resolution, written, dest>>

\* upload_to_s3(&s3_client, DEST_BUCKET, &dest_key, &output_path).await?
Upload ==
    /\ workerPc = "upload"
    /\ \/ /\ dest' = dest \cup {dest_key(source_key, resolutions[resolution].name)}
          /\ workerPc' = "remove_output"
          /\ exit' = exit
       \/ /\ Exit("Err")
          /\ dest' = dest
    /\ UNCHANGED <<vars, source_key, resolution, tmp, written>>

\* std::fs::remove_file(&output_path)? and the step of the for loop.
RemoveOutput ==
    /\ workerPc = "remove_output"
    /\ \/ /\ tmp' = tmp \ {output_path(resolutions[resolution].name)}
          /\ IF resolution < Len(resolutions)
             THEN resolution' = resolution + 1 /\ workerPc' = "transcode"
             ELSE resolution' = resolution /\ workerPc' = "remove_input"
          /\ exit' = exit
       \/ /\ Exit("Err")
          /\ UNCHANGED <<tmp, resolution>>
    /\ UNCHANGED <<vars, source_key, written, dest>>

\* std::fs::remove_file(input_path)? and Ok(()).
RemoveInput ==
    /\ workerPc = "remove_input"
    /\ \/ /\ tmp' = tmp \ {input_path}
          /\ Exit("Ok")
       \/ /\ Exit("Err")
          /\ tmp' = tmp
    /\ UNCHANGED <<vars, source_key, resolution, written, dest>>

WorkerNext ==
    \/ WorkerStart
    \/ DownloadGetObject
    \/ DownloadChunk
    \/ DownloadDone
    \/ Transcode
    \/ Upload
    \/ RemoveOutput
    \/ RemoveInput

SpecWorker == WorkerInit /\ [][WorkerNext]_workerVars

(* ----------------------- the registry on its own ----------------------- *)

\* The AppState methods called one after the other in any order, as the
\* mutex serialises them, on the registry of AppState::new(). The n-th job
\* pushed carries the n-th receipt handle.
ObjectKeys == {"movie.mp4", "clip.mp4"}

CallPush ==
    /\ Len(pushed) < MaxPushes
    /\ \E k \in ObjectKeys :
         LET v == VideoMessage("b", k, ReceiptHandle(Len(pushed) + 1))
             r == push_message(messages, selected, v)
         IN  /\ messages' = r.messages
             /\ selected' = r.selected
             /\ pushed' = Append(pushed, v)
    /\ UNCHANGED <<lock, pollerVars, fgVars, tasks, shutdown, removed, workerVars>>

CallNext ==
    /\ selected' = next(messages, selected)
    /\ UNCHANGED <<messages, lock, pollerVars, fgVars, tasks, shutdown, history,
                   workerVars>>

CallPrevious ==
    /\ selected' = previous(messages, selected)
    /\ UNCHANGED <<messages, lock, pollerVars, fgVars, tasks, shutdown, history,
                   workerVars>>

CallRemove ==
    /\ LET r == remove_selected(messages, selected)
       IN  /\ messages' = r.messages
           /\ selected' = r.selected
           /\ removed' = IF r.ret = <<>> THEN removed
                         ELSE removed (+) SetToBag({r.ret[1]})
    /\ UNCHANGED <<lock, pollerVars, fgVars, tasks, shutdown, pushed, workerVars>>

RegistryNext == CallPush \/ CallNext \/ CallPrevious \/ CallRemove

SpecRegistry == Init /\ [][RegistryNext]_vars

(* --------------------------- specification ---------------------------- *)

Next == Poller \/ Foreground \/ Task

Spec == Init /\ [][Next]_vars

(* ------------------------------ helpers ------------------------------- *)

RECURSIVE BagOfSeq(_)
BagOfSeq(q) == IF q = <<>> THEN EmptyBag ELSE SetToBag({Head(q)}) (+) BagOfSeq(Tail(q))

\* The part of bag B whose elements belong to message rh.
OfMessage(B, rh) ==
    [x \in {y \in BagToSet(B) : y.receipt_handle = rh} |-> B[x]]

\* The tasks launched for jobs of message rh.
TasksOf(rh) ==
    [t \in {u \in BagToSet(tasks) : u.job.receipt_handle = rh} |-> tasks[t]]

\* The sub-bag of the tasks in B that satisfy started.
StartedIn(B) == [t \in {u \in BagToSet(B) : u.started} |-> B[t]]

\* delete_message has been called with receipt handle rh.
Acked(rh) == \E t \in BagToSet(tasks) : t.ack = <<rh>>

\* The run_task request of t has returned.
Resolved(t) == t.pc \in {"delete_message", "done"}

DecodedMsgs == {decoded[i] : i \in DOMAIN decoded}

(* ------------------------------- claims ------------------------------- *)

\* C1: in every reachable state the job list is empty or the selection index
\* lies in 0 .. len-1.
C1_SelectionInRange ==
    Len(messages) = 0 \/ (0 <= selected /\ selected <= Len(messages) - 1)

\* C2: a message's receipt handle is passed to delete_message if and only if
\* every job decoded from that message has been launched successfully.
C2_AckIffAllLaunched ==
    \A d \in DecodedMsgs :
        (d.ok /\ Len(d.records) >= 1) =>
            (Acked(d.receipt_handle) <=>
                BagCardinality(StartedIn(TasksOf(d.receipt_handle))) = Len(d.records))

\* C3: a task acks only after the backend accepted its submission; a failed
\* launch issues no ack and returns an error.
C3_AckOnlyAfterAccepted ==
    \A t \in BagToSet(tasks) :
        /\ t.ack # <<>> => t.started
        /\ (Resolved(t) /\ ~t.started) => (t.ack = <<>> /\ t.pc = "done" /\ t.ret = "Err")


\* The jobs of sequence q that carry receipt handle rh, in order.
WithReceipt(q, rh) ==
    LET Test(j) == j.receipt_handle = rh
    IN  SelectSeq(q, Test)

\* C4: the multiset of jobs pushed so far equals the multiset of jobs in the
\* registry plus the multiset of jobs returned by remove_selected.
C4_NoJobLostOrDuplicated ==
    BagOfSeq(pushed) = BagOfSeq(messages) (+) removed

\* C4 witness: a job has been returned between two pushes, and the Enter
\* handler waits for the mutex while the poller is inside its next push.
C4_Witness ==
    /\ BagCardinality(removed) >= 1
    /\ pollerPc = "locked"
    /\ fgPc = "enter"

\* The positions at which the foreground loop holds the mutex.
FgCritical == {"snapshot", "next_locked", "previous_locked", "remove_locked"}

\* C5 (state part): the mutex is held exactly by an agent inside one of its
\* critical sections (push, snapshot copy, next, previous, remove_selected),
\* never by an agent at a receive, sleep, event poll, run_task or
\* delete_message position.
C5_HolderInCriticalSection ==
    /\ lock \in {"free", "poller", "fg"}
    /\ lock = "poller" <=> pollerPc = "locked"
    /\ lock = "fg" <=> fgPc \in FgCritical

\* C5 (step part): while an agent is inside a critical section no other agent
\* changes the registry.
C5_Uninterrupted ==
    /\ (fgPc \in FgCritical /\ fgPc' = fgPc) => UNCHANGED registry
    /\ (pollerPc = "locked" /\ pollerPc' = pollerPc) => UNCHANGED registry

\* C5: the registry mutex is held only for list mutation or snapshot copy,
\* never by an agent whose queue receive, launch or ack call is in progress,
\* and every critical section runs uninterrupted.
C5_LockDiscipline == []C5_HolderInCriticalSection /\ [][C5_Uninterrupted]_vars

\* C5 witness: the Enter handler holds the mutex while the poller waits for
\* it and a launch is in flight.
C5_Witness ==
    /\ lock = "fg"
    /\ fgPc = "remove_locked"
    /\ pollerPc = "for_rec"
    /\ \E t \in BagToSet(tasks) : t.pc = "run_task"

\* C6: on an empty registry remove_selected returns none and changes nothing,
\* and the Enter handler then starts no launch task and goes on to the next
\* tick.
C6_EnterOnEmpty ==
    [][/\ (fgPc = "remove_locked" /\ messages = <<>> /\ fgPc' # fgPc) =>
            (maybe_job' = <<>> /\ UNCHANGED registry /\ tasks' = tasks /\ fgPc' = "spawn")
       /\ (fgPc = "spawn" /\ maybe_job = <<>> /\ fgPc' # fgPc) =>
            (UNCHANGED registry /\ tasks' = tasks /\ fgPc' = "tick")]_vars

\* C6 witness: Enter was pressed on an empty registry and remove_selected
\* returned none.
C6_Witness == fgPc = "spawn" /\ maybe_job = <<>> /\ messages = <<>> /\ tasks = EmptyBag

\* C7 (state part): a message whose body did not decode has no job pushed and
\* no ack issued.
C7_NothingForUndecoded ==
    \A d \in DecodedMsgs :
        ~d.ok => (~Acked(d.receipt_handle) /\ WithReceipt(pushed, d.receipt_handle) = <<>>)

\* C7 (step part): the poller's step on a body that fails to decode leaves the
\* registry as it was, logs the parse error and stays in the loop over the
\* batch.
C7_DecodeErrorStep ==
    (/\ pollerPc = "for_msg" /\ batch # <<>>
     /\ Head(batch).body # NoBody /\ ~DecodeOk(Head(batch).body)
     /\ batch' # batch)
        => /\ UNCHANGED <<registry, tasks, pushed>>
           /\ pollerLog' = "parse_error"
           /\ pollerPc' = "for_msg"
           /\ batch' = Tail(batch)

\* C7: a body that fails to decode leaves the registry unchanged, causes no
\* ack, is reported, and the poller goes on with the rest of the batch.
C7_DecodeErrorSkipsMessage == []C7_NothingForUndecoded /\ [][C7_DecodeErrorStep]_vars

\* C7 witness: a parse error has just been logged while a job of an earlier
\* message is in the registry, and the poller is back in the loop over the
\* batch.
C7_Witness ==
    pollerLog = "parse_error" /\ pollerPc = "for_msg" /\ messages # <<>>

\* C8: for a message with exactly one job, a successful launch of that job is
\* followed at once by an ack with that message's receipt handle and no
\* other, and the job is no longer in the registry.
C8_SingleJobAck ==
    \A d \in DecodedMsgs :
        (d.ok /\ Len(d.records) = 1) =>
            \A t \in BagToSet(TasksOf(d.receipt_handle)) :
                /\ t.started => t.ack = <<d.receipt_handle>>
                /\ t.ack # <<>> => t.ack = <<d.receipt_handle>>
                /\ WithReceipt(messages, d.receipt_handle) = <<>>

\* C8 witness: the only job of a message was launched, acked, and the registry
\* is empty again.
C8_Witness ==
    \E d \in DecodedMsgs :
        /\ d.ok /\ Len(d.records) = 1
        /\ \E t \in BagToSet(TasksOf(d.receipt_handle)) :
              t.started /\ t.pc = "done" /\ t.ack = <<d.receipt_handle>>
        /\ messages = <<>>

\* The two jobs of a two-record message, field by field.
JobsOfPair(d) ==
    <<[bucket |-> d.records[1].s3.bucket.name, key |-> d.records[1].s3.object.key,
       receipt_handle |-> d.receipt_handle],
      [bucket |-> d.records[2].s3.bucket.name, key |-> d.records[2].s3.object.key,
       receipt_handle |-> d.receipt_handle]>>

\* The poller is still inside the record loop of message d.
InProgress(d) == receipt = d.receipt_handle /\ pollerPc \in {"for_rec", "locked"}

\* C9 (state part): once both jobs of a two-record message are pushed and one
\* of them has been selected, the registry holds exactly the other one, with
\* its bucket, key and token, whatever stage the launch and ack have reached.
C9_OtherJobPresent ==
    \A d \in DecodedMsgs :
        (/\ d.ok /\ Len(d.records) = 2 /\ ~InProgress(d)
         /\ BagCardinality(OfMessage(removed, d.receipt_handle)) = 1)
            => /\ Len(WithReceipt(messages, d.receipt_handle)) = 1
               /\ BagOfSeq(WithReceipt(messages, d.receipt_handle))
                     (+) OfMessage(removed, d.receipt_handle) = BagOfSeq(JobsOfPair(d))

\* C9: a two-record message gives two jobs, and selecting, launching and
\* acking one leaves the other in the registry unchanged.
C9_OtherJobUntouched ==
    []C9_OtherJobPresent /\ [][tasks' # tasks => UNCHANGED registry]_vars

\* C9 witness: one job of a two-record message was launched and acked and the
\* other is in the registry.
C9_Witness ==
    \E d \in DecodedMsgs :
        /\ d.ok /\ Len(d.records) = 2
        /\ \E t \in BagToSet(TasksOf(d.receipt_handle)) : t.pc = "done" /\ t.ack # <<>>
        /\ Len(WithReceipt(messages, d.receipt_handle)) = 1

\* C10 (state part): of a decoded message with N records the poller has pushed
\* the jobs of the records it has gone through (all N once the record loop is
\* over), in record order, each with the record's bucket and key and the
\* message's receipt handle.
C10_JobsOfRecords ==
    \A d \in DecodedMsgs :
        d.ok =>
            LET js   == WithReceipt(pushed, d.receipt_handle)
                done == IF InProgress(d) THEN Len(d.records) - Len(recs)
                        ELSE Len(d.records)
            IN  /\ Len(js) = done
                /\ \A k \in 1..done :
                      js[k] = [bucket |-> d.records[k].s3.bucket.name,
                               key |-> d.records[k].s3.object.key,
                               receipt_handle |-> d.receipt_handle]

\* C10: a body that decodes with N records makes the poller append exactly N
\* jobs to the registry, in record order, with the records' bucket and key
\* and the message's receipt handle.
C10_DecodePushesAllRecords ==
    /\ []C10_JobsOfRecords
    /\ [][pushed' # pushed =>
            /\ Len(pushed') = Len(pushed) + 1
            /\ messages' = Append(messages, pushed'[Len(pushed')])]_vars

\* C10 witness: both jobs of a message with two different keys are pushed.
C10_Witness ==
    \E d \in DecodedMsgs :
        /\ d.ok /\ Len(d.records) = 2 /\ ~InProgress(d)
        /\ d.records[1].s3.object.key # d.records[2].s3.object.key
        /\ Len(WithReceipt(pushed, d.receipt_handle)) = 2


\* Number of launch tasks for job j in the bag B of tasks.
LaunchesIn(B, j) ==
    BagCardinality([t \in {u \in BagToSet(B) : u.job = j} |-> B[t]])

\* Number of launch tasks spawned for job j.
LaunchesOf(j) == LaunchesIn(tasks, j)

\* The bag of the jobs for which a launch task was spawned.
LaunchedJobs == [j \in {t.job : t \in BagToSet(tasks)} |-> LaunchesOf(j)]

\* C11 (state part): every job with a launch task was returned by
\* remove_selected on an Enter event before.
C11_LaunchedWereSelected == LaunchedJobs \sqsubseteq removed

\* C11 (step part): no step of the poller changes the launch tasks (it makes
\* no run_task and no delete_message call), and a launch task appears only in
\* the spawn step of the Enter handler, for the job it removed.
C11_OnlyEnterLaunches ==
    /\ pollerVars' # pollerVars => tasks' = tasks
    /\ BagCardinality(tasks') > BagCardinality(tasks) =>
          /\ fgPc = "spawn" /\ maybe_job # <<>>
          /\ LaunchesIn(tasks', maybe_job[1]) = LaunchesOf(maybe_job[1]) + 1

\* C11: the poller only polls, decodes and pushes; every launch is preceded
\* by an Enter event that removed that job from the registry.
C11_PollerNeverLaunches == []C11_LaunchedWereSelected /\ [][C11_OnlyEnterLaunches]_vars

\* C11 witness: the poller is inside a push while a launch started by the
\* operator is in flight.
C11_Witness ==
    pollerPc = "locked" /\ \E t \in BagToSet(tasks) : t.pc = "run_task"

\* The launch tasks whose run_and_delete has not returned.
InFlight == {t \in BagToSet(tasks) : t.pc # "done"}

\* C12: a launch task that has been started is never cancelled: whatever the
\* foreground loop and main do, its pending request can still complete and
\* the task go on.
C12_NeverCancelled ==
    \A t \in InFlight : ENABLED (TaskRunTask(t) \/ TaskDeleteMessage(t))

\* The poller can take its next step, the mutex permitting.
PollerAlive ==
    /\ pollerPc \in {"receive", "for_msg", "for_rec", "locked", "sleep"}
    /\ pollerPc = "receive" => ENABLED (PollerReceive \/ PollerReceiveErr)
    /\ pollerPc = "for_msg" => ENABLED (PollerMsg \/ PollerBatchDone)
    /\ (pollerPc = "for_rec" /\ lock = "free") => ENABLED PollerLock
    /\ pollerPc = "locked" => ENABLED PollerPush
    /\ pollerPc = "sleep" => ENABLED PollerSleep

\* The foreground loop can take its next step, the mutex permitting.
FgAlive ==
    /\ (fgPc \in {"tick", "down", "up", "enter"} /\ lock = "free")
          => ENABLED (FgLockSnapshot \/ FgLockKey)
    /\ fgPc \notin {"tick", "down", "up", "enter"} => ENABLED Foreground

\* C13 (state part): as long as the operator has not quit, both loops can go
\* on, whatever errors the poller and the launch tasks have met.
C13_LoopsAlive ==
    /\ ~shutdown => PollerAlive
    /\ fgPc # "exited" => FgAlive

\* C13 (step part): a receive error sends the poller to its sleep and a parse
\* error to the next message; the completion of a launch or ack request,
\* with or without error, moves neither loop and leaves the registry alone.
C13_ErrorsAreLocal ==
    /\ (pollerPc = "receive" /\ pollerPc' # pollerPc) => pollerPc' \in {"for_msg", "sleep"}
    /\ pollerLog' = "receive_error" => pollerPc' = "sleep"
    /\ pollerLog' = "parse_error" => pollerPc' = "for_msg"
    /\ (tasks' # tasks /\ BagCardinality(tasks') = BagCardinality(tasks))
          => UNCHANGED <<registry, lock, pollerVars, fgVars>>

\* C13: no receive, decode, launch or ack error stops the poller or the
\* foreground loop.
C13_ErrorsStopNoLoop == []C13_LoopsAlive /\ [][C13_ErrorsAreLocal]_vars

\* C13 witness: a decode error, a launch error, an ack error and a receive
\* error have all happened, and the poller is on its way to the next cycle
\* with the foreground loop running.
C13_Witness ==
    /\ \E d \in DecodedMsgs : ~d.ok
    /\ \E t \in BagToSet(tasks) : t.ret = "Err"
    /\ \E t \in BagToSet(tasks) : t.deleted = "Err"
    /\ pollerLog = "receive_error" /\ pollerPc = "sleep"
    /\ fgPc = "tick" /\ ~shutdown

\* C14 (state part): every launch task has sent one run_task request, and
\* the jobs with a launch task, plus the one the Enter handler is about to
\* spawn, are exactly the jobs remove_selected has returned.
C14_OneTaskPerReturnedJob ==
    /\ \A t \in BagToSet(tasks) : t.launches = 1
    /\ LaunchedJobs (+) BagOfSeq(maybe_job) = removed

\* C14 (step part): a task that has returned stays as it is (no retry), and
\* the registry grows only by a push of the poller (no re-insertion).
C14_NoRetryNoReinsert ==
    /\ \A t \in BagToSet(tasks) : t.pc = "done" => CopiesIn(t, tasks') >= CopiesIn(t, tasks)
    /\ Len(messages') > Len(messages) =>
          (pushed' # pushed /\ messages' = Append(messages, pushed'[Len(pushed')]))

\* C14: each job returned on an Enter event gets exactly one launch call,
\* whatever its outcome; a failed launch is neither retried nor is the job put
\* back into the registry.
C14_ExactlyOneLaunch == []C14_OneTaskPerReturnedJob /\ [][C14_NoRetryNoReinsert]_vars

\* C14 witness: a launch has failed, its job is in no registry entry and the
\* foreground loop is in a later tick.
C14_Witness ==
    \E t \in BagToSet(tasks) :
        /\ t.pc = "done" /\ t.ret = "Err" /\ t.launches = 1
        /\ \A i \in DOMAIN messages : messages[i] # t.job
        /\ fgPc = "poll"

\* C15 (state part): while launch tasks are in flight and the runtime is up,
\* every step of the foreground loop and of the poller is enabled as soon as
\* the mutex allows it, and every task in flight can be the next to move.
C15_NothingWaitsForALaunch ==
    (InFlight # {} /\ ~shutdown) =>
        /\ (fgPc = "tick" /\ lock = "free") => ENABLED FgLockSnapshot
        /\ fgPc = "snapshot" => ENABLED FgSnapshot
        /\ fgPc = "poll" => ENABLED FgEvent
        /\ (fgPc \in {"down", "up", "enter"} /\ lock = "free") => ENABLED FgLockKey
        /\ fgPc = "next_locked" => ENABLED FgNext
        /\ fgPc = "previous_locked" => ENABLED FgPrevious
        /\ fgPc = "remove_locked" => ENABLED FgRemove
        /\ fgPc = "spawn" => ENABLED FgSpawn
        /\ (pollerPc = "for_rec" /\ lock = "free") => ENABLED PollerLock
        /\ pollerPc = "locked" => ENABLED PollerPush
        /\ \A t \in InFlight : ENABLED (TaskRunTask(t) \/ TaskDeleteMessage(t))
        /\ lock = "fg" => fgPc \in FgCritical

\* C15 (step part): a step of a launch task changes that task only: it takes
\* no mutex and touches neither the registry, the poller nor the foreground
\* loop.
C15_TaskStepIsLocal ==
    (tasks' # tasks /\ BagCardinality(tasks') = BagCardinality(tasks)) =>
        UNCHANGED <<registry, lock, pollerVars, fgVars>>

\* C15: a launch in flight blocks neither the foreground loop, nor the
\* poller, nor another launch; launches in flight finish in any order.
C15_LaunchNeverBlocks == []C15_NothingWaitsForALaunch /\ [][C15_TaskStepIsLocal]_vars

\* C15 witness: two launches are in flight at once and the foreground loop
\* has taken a new snapshot since.
C15_Witness ==
    /\ BagCardinality([t \in InFlight |-> tasks[t]]) = 2
    /\ ~shutdown
    /\ fgPc = "poll"
    /\ snapshot.taken

\* C16 as stated: a job whose launch call has not returned yet is still in
\* the registry.
C16_InRegistryUntilResolved ==
    \A t \in BagToSet(tasks) :
        ~Resolved(t) => \E i \in DOMAIN messages : messages[i] = t.job

\* C16 (state part): the registry holds exactly the pushed jobs that have not
\* been selected: the others are in the Enter handler or have a launch task.
C16_InRegistryUntilSelected ==
    BagOfSeq(messages) (+) BagOfSeq(maybe_job) (+) LaunchedJobs = BagOfSeq(pushed)

\* C16 (step part): the registry shrinks only in the remove_selected step of
\* the Enter handler, which comes before the spawn; no step of a launch task
\* changes the registry.
C16_RemovedAtSelection ==
    /\ Len(messages') < Len(messages) =>
          (fgPc = "remove_locked" /\ fgPc' = "spawn" /\ tasks' = tasks)
    /\ (tasks' # tasks /\ BagCardinality(tasks') = BagCardinality(tasks)) =>
          UNCHANGED messages

\* C16 (amended): a job stays in the registry from its push until the operator
\* selects it: remove_selected takes it out before the launch task is spawned,
\* and the outcome of the launch does not change the registry.
C16_RemovedBeforeLaunch == []C16_InRegistryUntilSelected /\ [][C16_RemovedAtSelection]_vars

\* C16 witness: a launch call is in flight, its job is no longer in the
\* registry and the foreground loop has finished the Enter handler.
C16_Witness ==
    \E t \in BagToSet(tasks) :
        /\ t.pc = "run_task"
        /\ \A i \in DOMAIN messages : messages[i] # t.job
        /\ fgPc = "tick"
        /\ ~shutdown

\* C17: when the worker's main has ended, however it ended, none of its
\* temporary files (the input file, an output file) is left under /tmp.
C17_TempFilesRemovedOnExit ==
    workerPc = "exited" => tmp = {}

\* The job the cursor designates in a non-empty list, as remove_selected
\* and the list widget read it: the cursor is clamped to the last position.
Designated(ms, sel) == ms[Min(sel, Len(ms) - 1) + 1]

\* C18 (step): a push appends the job as the last element and keeps the
\* others; on an empty registry the cursor becomes 0, on a non-empty one the
\* cursor and the job it designates stay the same.
C18_PushStep ==
    pushed' # pushed =>
        /\ messages' = Append(messages, pushed'[Len(pushed')])
        /\ Len(messages) = 0 => selected' = 0
        /\ Len(messages) > 0 =>
              /\ selected' = selected
              /\ Designated(messages', selected') = Designated(messages, selected)

\* C18: every push_message call has the effect of C18_PushStep.
C18_PushFrame == [][C18_PushStep]_vars

\* C19 (step): a remove_selected call on a non-empty registry returns the job
\* the cursor designates, and the list after it is the list before it without
\* the element at that one position, the others in the same order.
C19_RemoveStep ==
    (Len(messages) > 0 /\ (removed' # removed \/ Len(messages') < Len(messages))) =>
        LET i == Min(selected, Len(messages) - 1) + 1
        IN  /\ removed' = removed (+) SetToBag({Designated(messages, selected)})
            /\ Len(messages') = Len(messages) - 1
            /\ \A j \in 1..Len(messages') :
                  messages'[j] = IF j < i THEN messages[j] ELSE messages[j + 1]
            /\ pushed' = pushed

\* C19: remove_selected returns exactly the designated job, removes that one
\* job and keeps the arrival order of the others.
C19_RemovesDesignatedOnly == [][C19_RemoveStep]_vars

\* C19 witness: of three jobs pushed, the second has been removed and the
\* first and the third are left in this order.
C19_Witness ==
    /\ Len(pushed) = 3
    /\ messages = <<pushed[1], pushed[3]>>
    /\ removed = SetToBag({pushed[2]})

\* C20 (step): on a non-empty registry next sets the cursor to
\* min(i+1, len-1) and previous to max(i-1, 0), the cursor moves by at most
\* one, never down on next and never up on previous; the list is unchanged,
\* and on an empty registry nothing changes.
C20_CursorStep ==
    /\ (fgPc = "next_locked" /\ fgPc' # fgPc) =>
          /\ messages' = messages
          /\ IF Len(messages) >= 1
             THEN /\ selected' = Min(selected + 1, Len(messages) - 1)
                  /\ selected' >= selected
                  /\ selected' - selected <= 1
             ELSE selected' = selected
    /\ (fgPc = "previous_locked" /\ fgPc' # fgPc) =>
          /\ messages' = messages
          /\ IF Len(messages) >= 1
             THEN /\ selected' = (IF selected - 1 >= 0 THEN selected - 1 ELSE 0)
                  /\ selected' <= selected
                  /\ selected - selected' <= 1
             ELSE selected' = selected

\* C20: every next and previous call has the effect of C20_CursorStep.
C20_CursorMovesByOne == [][C20_CursorStep]_vars

\* The entries the list widget can show as highlighted when it renders the
\* snapshot (items, index): none when the snapshot is empty (the "No video
\* upload events yet..." paragraph is drawn instead of the list), else the
\* entry at the index, an index past the end being read as the last entry.
Highlighted(items, index) ==
    IF items = <<>> THEN {} ELSE {Designated(items, index)}

\* C21: when the Enter handler is about to launch a job, that job is the one
\* highlighted in the snapshot rendered in the same tick, whatever the poller
\* has pushed between the snapshot and the removal.
C21_LaunchedWasHighlighted ==
    (fgPc = "spawn" /\ maybe_job # <<>>) =>
        /\ snapshot.taken
        /\ maybe_job[1] \in Highlighted(snapshot.items, snapshot.index)

=============================================================================
